---- MODULE Spec2Model ----
(***************************************************************************)
(* State-machine model of the AuroraChat component                         *)
(* (src/src/components/AuroraChat.tsx).                                    *)
(*                                                                         *)
(* The variables are the component's useState cells, the millisecond       *)
(* clock read by Date.now(), and the handleSendMessage invocations that    *)
(* are suspended on their 2000 ms timer.  Each action is one event         *)
(* handler (or the resumption of a suspended handler), run to completion   *)
(* as the single-threaded event loop runs it.                              *)
(***************************************************************************)
EXTENDS Integers, Sequences, FiniteSets, TLC

VARIABLES
    messages,          \* useState<Message[]>([])
    currentMessage,    \* useState('')
    isGenerating,      \* useState(false)
    sidebarOpen,       \* useState(true)
    advancedOpen,      \* useState(false)
    agentRole,         \* useState('')
    provider,          \* useState<'Groq' | 'OpenAI'>('Groq')
    model,             \* useState('')
    webSearch,         \* useState(false)
    messageWebSearch,  \* useState(false)
    temperature,       \* useState(0.7), kept in tenths
    maxTokens,         \* useState(1000)
    now,               \* the value Date.now() returns, in milliseconds
    pending            \* suspended handleSendMessage invocations, in timer order

chatVars   == <<messages, currentMessage, isGenerating, now, pending>>
configVars == <<agentRole, provider, model, webSearch, messageWebSearch,
                temperature, maxTokens>>
layoutVars == <<sidebarOpen, advancedOpen>>
vars       == <<messages, currentMessage, isGenerating, sidebarOpen, advancedOpen,
                agentRole, provider, model, webSearch, messageWebSearch,
                temperature, maxTokens, now, pending>>

(***************************************************************************)
(* Bounds of the model.                                                    *)
(***************************************************************************)
\* sends are accepted while the list is shorter than this
MaxMessages == 2
\* number of handleSendMessage invocations that may be suspended at once
MaxPending == 2
\* sends are accepted during this many timer periods
MaxRounds == 1

(***************************************************************************)
(* Program constants.                                                      *)
(***************************************************************************)
\* setTimeout(resolve, 2000)
DelayMs == 2000

Providers == {"Groq", "OpenAI"}

ALLOWED_MODELS ==
    [p \in Providers |->
        IF p = "Groq"
        THEN <<"llama-3.3-70b-versatile", "llama-3.1-8b-instant",
               "mixtral-8x7b-32768", "gemma2-9b-it">>
        ELSE <<"gpt-4o", "gpt-4o-mini", "gpt-4-turbo", "gpt-3.5-turbo">>]

Range(s) == {s[i] : i \in DOMAIN s}

(***************************************************************************)
(* Text.  A string is the sequence of its characters.                      *)
(***************************************************************************)
\* the texts typed: the empty one, a blank one and one with content
Texts == {<<>>, <<" ">>, <<"a">>}

IsWhiteSpace(c) == c = " "

RECURSIVE TrimStart(_)
TrimStart(s) ==
    IF s = <<>> THEN s
    ELSE IF IsWhiteSpace(Head(s)) THEN TrimStart(Tail(s)) ELSE s

RECURSIVE TrimEnd(_)
TrimEnd(s) ==
    IF s = <<>> THEN s
    ELSE IF IsWhiteSpace(s[Len(s)]) THEN TrimEnd(SubSeq(s, 1, Len(s) - 1)) ELSE s

\* String.prototype.trim
Trim(s) == TrimEnd(TrimStart(s))

\* Number.prototype.toString: the decimal digits of a non-negative integer
RECURSIVE NumberToString(_)
NumberToString(n) ==
    IF n < 10 THEN <<n>> ELSE Append(NumberToString(n \div 10), n % 10)

(***************************************************************************)
(* Initial state: the useState initialisers.  The mount run of the         *)
(* [provider] effect sets model to '', which it already is.                *)
(***************************************************************************)
Init ==
    /\ messages = <<>>
    /\ currentMessage = <<>>
    /\ isGenerating = FALSE
    /\ sidebarOpen = TRUE
    /\ advancedOpen = FALSE
    /\ agentRole = <<>>
    /\ provider = "Groq"
    /\ model = ""
    /\ webSearch = FALSE
    /\ messageWebSearch = FALSE
    /\ temperature = 7
    /\ maxTokens = 1000
    /\ now = 0
    /\ pending = <<>>

(***************************************************************************)
(* handleSendMessage                                                       *)
(***************************************************************************)
\* the guard without the trim: a blank text passes
SendGuardNoTrim == currentMessage # <<>> /\ provider # "" /\ model # ""

\* if (!currentMessage.trim() || !provider || !model) return;
SendGuard == Trim(currentMessage) # <<>> /\ provider # "" /\ model # ""

\* const isConfigValid = provider && model;
isConfigValid == provider # "" /\ model # ""

\* disabled={!currentMessage.trim() || !isConfigValid || isGenerating}
SendDisabled == Trim(currentMessage) = <<>> \/ ~isConfigValid \/ isGenerating

\* { id: Date.now().toString(), role: 'user', content: currentMessage, timestamp: new Date() }
UserMessage ==
    [id |-> NumberToString(now), role |-> "user",
     content |-> currentMessage, timestamp |-> now]

\* { id: (Date.now() + 1).toString(), role: 'agent', content: `...${provider} ${model}...`, ... }
\* p and m are the provider and model of the render whose handler is resuming
AgentMessage(p, m) ==
    [id |-> NumberToString(now + 1), role |-> "agent",
     content |-> <<"This is a simulated response from ", p, " ", m,
                   ". In a real implementation, this would be the actual AI response based on your configuration.">>,
     timestamp |-> now]

\* prev => [message, ...prev]
PrependMessage(prev, m) == <<m>> \o prev

\* prev => [...prev, message]
AppendMessage(prev, m) == Append(prev, m)

\* the model follows a send only if its timer can still fire within the bounds
WithinBounds ==
    /\ Len(messages) < MaxMessages
    /\ Len(pending) < MaxPending
    /\ now \div DelayMs < MaxRounds

\* the handler up to its await: the guard, the three state updates, the timer
HandleSendMessage ==
    IF ~SendGuard
    THEN UNCHANGED vars
    ELSE /\ WithinBounds
         /\ messages' = AppendMessage(messages, UserMessage)
         /\ currentMessage' = <<>>
         /\ isGenerating' = TRUE
         /\ pending' = Append(pending, [due |-> now + DelayMs,
                                        provider |-> provider, model |-> model])
         /\ UNCHANGED <<now, configVars, layoutVars>>

\* handleKeyPress with Enter and no Shift
EnterKey == HandleSendMessage

\* onClick of the Send button; a disabled button delivers no click
SendButton ==
    IF SendDisabled THEN UNCHANGED vars ELSE HandleSendMessage

\* the timer of the oldest suspended invocation has expired
TimerExpired == pending # <<>> /\ now >= Head(pending).due

\* the handler after its await: the agent message is appended, then finally
ReplyArrives ==
    /\ TimerExpired
    /\ messages' = AppendMessage(messages,
                        AgentMessage(Head(pending).provider, Head(pending).model))
    /\ isGenerating' = FALSE
    /\ pending' = Tail(pending)
    /\ UNCHANGED <<currentMessage, now, configVars, layoutVars>>

\* the exception path without the finally block
ThrowsWithoutFinally ==
    /\ TimerExpired
    /\ pending' = Tail(pending)
    /\ UNCHANGED <<messages, currentMessage, isGenerating, now, configVars, layoutVars>>

\* the try block throws: catch logs to the console, then finally
SimulatedCallThrows ==
    /\ TimerExpired
    /\ isGenerating' = FALSE
    /\ pending' = Tail(pending)
    /\ UNCHANGED <<messages, currentMessage, now, configVars, layoutVars>>

(***************************************************************************)
(* Message actions                                                         *)
(***************************************************************************)
\* prev.filter(m => m.id !== messageId)
FilterOut(prev, messageId) == SelectSeq(prev, LAMBDA m : m.id # messageId)

\* deleteMessage(message.id) from the delete button of the i-th message
DeleteMessage(i) ==
    /\ messages' = FilterOut(messages, messages[i].id)
    /\ UNCHANGED <<currentMessage, isGenerating, now, pending, configVars, layoutVars>>

\* copyMessage(message.content): writes the clipboard, no component state
CopyMessage(i) == UNCHANGED vars

\* regenerateMessage(message.id): logs to the console, no component state
RegenerateMessage(i) ==
    /\ messages[i].role = "agent"
    /\ UNCHANGED vars

(***************************************************************************)
(* Composer and configuration                                              *)
(***************************************************************************)
\* onChange={(e) => setCurrentMessage(e.target.value)}
SetCurrentMessage(t) ==
    /\ t # currentMessage
    /\ currentMessage' = t
    /\ UNCHANGED <<messages, isGenerating, now, pending, configVars, layoutVars>>

\* the component without the [provider] effect
KeepModelEffect(prevProvider, nextProvider, m) == m

\* useEffect(() => { setModel(''); }, [provider]): runs when provider changed
ResetModelEffect(prevProvider, nextProvider, m) ==
    IF nextProvider # prevProvider THEN "" ELSE m

\* setProvider(p) alone, the effect never run
SelectProviderOnly(p) ==
    /\ provider' = p
    /\ UNCHANGED <<chatVars, layoutVars, agentRole, model, webSearch, messageWebSearch,
                   temperature, maxTokens>>

\* onClick={() => setProvider(p)} and the effect it triggers.  React runs the
\* passive effects of a render caused by a click before it handles the next
\* event, so no handler sees the provider changed and the model not yet reset.
SelectProvider(p) ==
    /\ provider' = p
    /\ model' = ResetModelEffect(provider, p, model)
    /\ UNCHANGED <<chatVars, layoutVars, agentRole, webSearch, messageWebSearch,
                   temperature, maxTokens>>

\* the SelectItems rendered: ALLOWED_MODELS[provider]?.map(...)
ModelOptions == Range(ALLOWED_MODELS[provider])

\* the option the model picks: the first of each provider's list, if rendered
PickedModels == {m \in ModelOptions : \E p \in Providers : m = ALLOWED_MODELS[p][1]}

\* onValueChange={setModel}
SelectModel(m) ==
    /\ m # model
    /\ model' = m
    /\ UNCHANGED <<chatVars, layoutVars, agentRole, provider, webSearch,
                   messageWebSearch, temperature, maxTokens>>

\* onChange={(e) => setAgentRole(e.target.value)}
SetAgentRole(t) ==
    /\ t # agentRole
    /\ agentRole' = t
    /\ UNCHANGED <<chatVars, layoutVars, provider, model, webSearch,
                   messageWebSearch, temperature, maxTokens>>

\* onCheckedChange={setWebSearch}
ToggleWebSearch ==
    /\ webSearch' = ~webSearch
    /\ UNCHANGED <<chatVars, layoutVars, agentRole, provider, model,
                   messageWebSearch, temperature, maxTokens>>

\* onCheckedChange={setMessageWebSearch}
ToggleMessageWebSearch ==
    /\ messageWebSearch' = ~messageWebSearch
    /\ UNCHANGED <<chatVars, layoutVars, agentRole, provider, model,
                   webSearch, temperature, maxTokens>>

\* positions of the range input that the model moves between, in tenths
TemperatureStops == {7, 20}

\* onChange={(e) => setTemperature(Number(e.target.value))}
SetTemperature(v) ==
    /\ v # temperature
    /\ temperature' = v
    /\ UNCHANGED <<chatVars, layoutVars, agentRole, provider, model, webSearch,
                   messageWebSearch, maxTokens>>

\* values typed into the number input
MaxTokensInputs == {1000, 4000}

\* onChange={(e) => setMaxTokens(Number(e.target.value))}
SetMaxTokens(v) ==
    /\ v # maxTokens
    /\ maxTokens' = v
    /\ UNCHANGED <<chatVars, layoutVars, agentRole, provider, model, webSearch,
                   messageWebSearch, temperature>>

(***************************************************************************)
(* Layout                                                                  *)
(***************************************************************************)
\* onOpenChange={setAdvancedOpen}
ToggleAdvanced ==
    /\ advancedOpen' = ~advancedOpen
    /\ UNCHANGED <<chatVars, configVars, sidebarOpen>>

\* a toggle that also clears the draft in the composer
ToggleSidebarDropsDraft ==
    /\ sidebarOpen' = ~sidebarOpen
    /\ currentMessage' = <<>>
    /\ UNCHANGED <<messages, isGenerating, now, pending, configVars, advancedOpen>>

\* onClick={() => setSidebarOpen(!sidebarOpen)}
ToggleSidebarButton ==
    /\ sidebarOpen' = ~sidebarOpen
    /\ UNCHANGED <<chatVars, configVars, advancedOpen>>

\* {sidebarOpen && <div ... onClick={() => setSidebarOpen(false)} />}
SidebarOverlayClick ==
    /\ sidebarOpen
    /\ sidebarOpen' = FALSE
    /\ UNCHANGED <<chatVars, configVars, advancedOpen>>

(***************************************************************************)
(* The clock.  It moves by one millisecond or by one timer period; the     *)
(* model observes it at the offsets ClockOffsets into each period, up to   *)
(* the period after the last one in which sends are accepted.              *)
(***************************************************************************)
ClockOffsets == {0, 1}

Tick ==
    /\ \E d \in {1, DelayMs} :
          /\ (now + d) \div DelayMs <= MaxRounds
          /\ (now + d) % DelayMs \in ClockOffsets
          /\ now' = now + d
    /\ UNCHANGED <<messages, currentMessage, isGenerating, pending,
                   configVars, layoutVars>>

Next ==
    \/ EnterKey
    \/ SendButton
    \/ ReplyArrives
    \/ SimulatedCallThrows
    \/ \E i \in DOMAIN messages : DeleteMessage(i)
    \/ \E i \in DOMAIN messages : CopyMessage(i)
    \/ \E i \in DOMAIN messages : RegenerateMessage(i)
    \/ \E t \in Texts : SetCurrentMessage(t)
    \/ \E p \in Providers : SelectProvider(p)
    \/ \E m \in PickedModels : SelectModel(m)
    \/ Tick

Spec == Init /\ [][Next]_vars

\* a suspended invocation resumes, by either way out of its try block
Finish == ReplyArrives \/ SimulatedCallThrows

\* the clock advances and expired timers are run by the event loop
LiveSpec == Spec /\ WF_vars(Tick) /\ WF_vars(Finish)

(***************************************************************************)
(* The component with its configuration and layout handlers.  These touch  *)
(* variables that no chat handler writes, so they are explored together    *)
(* with conversations in which a send is accepted from an empty list only. *)
(***************************************************************************)
UiWithinBounds == messages = <<>> /\ pending = <<>>

UINext ==
    \/ UiWithinBounds /\ EnterKey
    \/ UiWithinBounds /\ SendButton
    \/ ReplyArrives
    \/ SimulatedCallThrows
    \/ \E i \in DOMAIN messages : DeleteMessage(i)
    \/ \E i \in DOMAIN messages : CopyMessage(i)
    \/ \E i \in DOMAIN messages : RegenerateMessage(i)
    \/ \E t \in Texts : SetCurrentMessage(t)
    \/ \E p \in Providers : SelectProvider(p)
    \/ \E m \in PickedModels : SelectModel(m)
    \/ \E t \in Texts : SetAgentRole(t)
    \/ ToggleWebSearch
    \/ ToggleMessageWebSearch
    \/ \E v \in TemperatureStops : SetTemperature(v)
    \/ \E v \in MaxTokensInputs : SetMaxTokens(v)
    \/ ToggleAdvanced
    \/ ToggleSidebarButton
    \/ SidebarOverlayClick
    \/ Tick

UISpec == Init /\ [][UINext]_vars

(***************************************************************************)
(* Properties                                                              *)
(***************************************************************************)
\* s with its i-th element removed
RemoveAt(s, i) == SubSeq(s, 1, i - 1) \o SubSeq(s, i + 1, Len(s))

\* a is b with some elements removed, the rest in b's order
RECURSIVE IsSubsequence(_, _)
IsSubsequence(a, b) ==
    IF a = <<>> THEN TRUE
    ELSE IF b = <<>> THEN FALSE
    ELSE IF Head(a) = Head(b) THEN IsSubsequence(Tail(a), Tail(b))
    ELSE IsSubsequence(a, Tail(b))

\* the text is empty or consists of blanks only
IsBlank(s) == \A i \in DOMAIN s : s[i] = " "

\* m is one of provider p's models
Allowed(p, m) == \E i \in DOMAIN ALLOWED_MODELS[p] : ALLOWED_MODELS[p][i] = m

\* C1: no two entries of the message list share an id.
C1_UniqueMessageIds ==
    \A i, j \in DOMAIN messages : i # j => messages[i].id # messages[j].id

\* C2: at most one handleSendMessage invocation is between its guard and its
\* finally block.
C2_AtMostOneSendInFlight == Len(pending) <= 1

\* C3: deleting by the id of the i-th message yields the list with exactly the
\* i-th message removed, the others kept in order.
C3_DeleteRemovesExactlyOne ==
    \A i \in DOMAIN messages :
        FilterOut(messages, messages[i].id) = RemoveAt(messages, i)

\* C4 as stated: pressing any provider option, the selected one included, leaves
\* model empty once the effects have run.
C4_AnyPressClearsModel ==
    \A p \in Providers : ResetModelEffect(provider, p, model) = ""

\* C4 as amended: every step that changes the provider leaves model empty.
C4_ProviderChangeClearsModel == [][provider' # provider => model' = ""]_vars

\* a model was chosen under Groq and used for a send still in flight, then the
\* provider was changed and the model is empty
C4_Witness ==
    /\ pending # <<>>
    /\ Head(pending).provider = "Groq"
    /\ provider = "OpenAI"
    /\ model = ""

\* C5: while the text is blank or the model is unset the Send button is
\* disabled, and Enter or a click changes neither the list, the draft, the
\* loading flag nor the suspended invocations.
C5_SendNeedsTextAndModel ==
    /\ []((IsBlank(currentMessage) \/ model = "") => SendDisabled)
    /\ [][((IsBlank(currentMessage) \/ model = "") /\ (EnterKey \/ SendButton))
            => UNCHANGED <<messages, currentMessage, isGenerating, pending>>]_vars

\* a blank, non-empty draft with a model selected and a conversation under way
C5_Witness ==
    /\ currentMessage # <<>>
    /\ IsBlank(currentMessage)
    /\ model # ""
    /\ messages # <<>>

\* C6: every suspended invocation eventually ends; each end of a run leaves
\* isGenerating false; the exception path leaves the list as it is and
\* suspends nothing new.
C6_SendClearsLoading ==
    /\ (pending # <<>>) ~> (pending = <<>> /\ ~isGenerating)
    /\ [][Len(pending') < Len(pending) => ~isGenerating']_vars
    /\ [][SimulatedCallThrows
            => messages' = messages /\ Len(pending') = Len(pending) - 1]_vars

\* a send was accepted, its timer expired and its run ended: the list ends
\* with a user message, nothing is suspended, the flag is clear
C6_Witness ==
    /\ messages # <<>>
    /\ messages[Len(messages)].role = "user"
    /\ now >= messages[Len(messages)].timestamp + DelayMs
    /\ pending = <<>>
    /\ ~isGenerating

\* C7: a step leaves the list alone, or appends one user message (a send) or
\* one agent message (a reply arrival) at its end, or removes messages (a
\* delete) keeping the others unchanged and in order.
C7_AppendOnly ==
    [][\/ messages' = messages
       \/ /\ Len(messages') = Len(messages) + 1
          /\ SubSeq(messages', 1, Len(messages)) = messages
          /\ \/ messages'[Len(messages')].role = "user" /\ (EnterKey \/ SendButton)
             \/ messages'[Len(messages')].role = "agent" /\ ReplyArrives
       \/ /\ \E i \in DOMAIN messages : DeleteMessage(i)
          /\ Len(messages') < Len(messages)
          /\ IsSubsequence(messages', messages)]_vars

\* sends, replies and a delete have happened: the list starts with an agent
\* message, its user message gone, and holds later messages
C7_Witness ==
    /\ Len(messages) >= 2
    /\ messages[1].role = "agent"

\* C8: the sidebar button and the overlay change sidebarOpen, and a step that
\* changes sidebarOpen changes nothing else.
C8_SidebarToggleFrame ==
    [][/\ (ToggleSidebarButton \/ SidebarOverlayClick) => sidebarOpen' # sidebarOpen
       /\ sidebarOpen' # sidebarOpen
            => UNCHANGED <<messages, currentMessage, isGenerating, now, pending,
                           configVars, advancedOpen>>]_vars

\* the sidebar is closed while a send is in flight and the configuration has
\* been edited
C8_Witness ==
    /\ ~sidebarOpen
    /\ pending # <<>>
    /\ messages # <<>>
    /\ agentRole # <<>>
    /\ webSearch

\* C9: isGenerating is true exactly when some invocation is suspended.
C9_LoadingReflectsPending == isGenerating <=> pending # <<>>

\* C10: whenever the guard of handleSendMessage passes, and for every
\* invocation in flight, the model is one of the provider's models.
C10_ModelBelongsToProvider ==
    /\ SendGuard => Allowed(provider, model)
    /\ \A i \in DOMAIN pending : Allowed(pending[i].provider, pending[i].model)

\* a send made after switching to the other provider and choosing a model there
C10_Witness ==
    /\ pending # <<>>
    /\ Head(pending).provider = "OpenAI"
    /\ SendGuard

====
